---- MODULE Spec2Model ----
(***************************************************************************)
(* A model of the slab allocator of rust-slabmalloc (Theseus variant):     *)
(* ZoneAllocator (zone.rs) over eleven SCAllocator size classes (sc.rs),   *)
(* each holding three page lists over 8 KiB pages.  The page type, its     *)
(* bitfield and the PageList (module `pages`) are modelled from their      *)
(* written description; everything else follows sc.rs and zone.rs.         *)
(***************************************************************************)
EXTENDS Integers, Sequences, FiniteSets, TLC

(***************************************************************************)
(* Program constants                                                       *)
(***************************************************************************)
PAGE_SIZE == 8192
METADATA_SIZE == 88
CACHE_LINE_SIZE == 64
MAX_BASE_SIZE_CLASSES == 11
SLAB_EMPTY_PAGES_THRESHOLD == 0
BITFIELD_BITS == 8 * 64

MAX_ALLOC_SIZE == PAGE_SIZE - METADATA_SIZE

BASE_ALLOC_SIZES ==
  <<8, 16, 32, 64, 128, 256, 512, 1024, 2048, 4096, MAX_ALLOC_SIZE>>

(***************************************************************************)
(* Bounds of the model                                                     *)
(***************************************************************************)
\* number of backing pages the page provider can hand out
NumPages == 2
\* number of allocations the callers hold at the same time
MaxLive == 3
\* cap of the allocations the SCAllocators count (allocation_count only grows)
MaxAllocationCount == 2
\* largest number N of objects of the reuse run (SpecReuse)
MaxObjects == 4
\* the requested sizes reach this far above MAX_ALLOC_SIZE (SpecMap)
MaxOversize == 88

Zones == {1, 2}
PageAddrs == {k * PAGE_SIZE : k \in 1..NumPages}
ClassIdx == 0..(MAX_BASE_SIZE_CLASSES - 1)
ListKinds == {"empty_slabs", "slabs", "full_slabs"}

\* the layouts the callers use: <<size, align>>
Layouts ==
  { [size |-> 8, align |-> 1],
    [size |-> 2048, align |-> 1], [size |-> 2000, align |-> 4096],
    [size |-> 4096, align |-> 1] }

(***************************************************************************)
(* Error values: the &'static str of the Result types                      *)
(***************************************************************************)
ErrOutOfMemory == "AllocationError::OutOfMemory"
ErrInvalidLayout == "AllocationError::InvalidLayout"
ErrNoPagesInHeap == "There were no pages in the heap"
ErrNoEmptyPage == "Couldn't find an empty page to exchange within the heap"
NoErr == ""

cmin(a, b) == IF a > b THEN b ELSE a

SetMin(S) == CHOOSE x \in S : \A y \in S : x <= y

(***************************************************************************)
(* Page bitfield (module pages): eight 64-bit words, bit set = allocated.  *)
(* The 512 bits are kept as the set s of the set bits, or, when more than  *)
(* half of the bits are set (inv), as the set s of the clear bits.         *)
(***************************************************************************)
AllBits == 0..(BITFIELD_BITS - 1)

HalfBits == BITFIELD_BITS \div 2

is_allocated(bitfield, idx) ==
  IF bitfield.inv THEN idx \notin bitfield.s ELSE idx \in bitfield.s

clear_bits(bitfield) ==
  IF bitfield.inv THEN bitfield.s ELSE AllBits \ bitfield.s

set_bit(bitfield, idx) ==
  IF bitfield.inv
  THEN [bitfield EXCEPT !.s = @ \ {idx}]
  ELSE IF Cardinality(bitfield.s \cup {idx}) > HalfBits
  THEN [inv |-> TRUE, s |-> AllBits \ (bitfield.s \cup {idx})]
  ELSE [bitfield EXCEPT !.s = @ \cup {idx}]

clear_bit(bitfield, idx) ==
  IF ~bitfield.inv
  THEN [bitfield EXCEPT !.s = @ \ {idx}]
  ELSE IF Cardinality(bitfield.s \cup {idx}) >= HalfBits
  THEN [inv |-> FALSE, s |-> AllBits \ (bitfield.s \cup {idx})]
  ELSE [bitfield EXCEPT !.s = @ \cup {idx}]

\* Bitfield::initialize(for_size, capacity): all clear, then the sentinels set
initialize(for_size, capacity) ==
  LET relevant_bits == cmin(capacity \div for_size, BITFIELD_BITS)
  IN  IF BITFIELD_BITS - relevant_bits > HalfBits
      THEN [inv |-> TRUE, s |-> 0..(relevant_bits - 1)]
      ELSE [inv |-> FALSE, s |-> relevant_bits..(BITFIELD_BITS - 1)]

is_full(bitfield) == bitfield.inv /\ bitfield.s = {}

is_empty(bitfield, relevant_bits) ==
  IF bitfield.inv
  THEN \A i \in 0..(relevant_bits - 1) : i \in bitfield.s
  ELSE \A i \in bitfield.s : i >= relevant_bits

\* first_fit: the lowest clear bit whose slot is aligned, or BITFIELD_BITS
lowest_fit(fit) == IF fit = {} THEN BITFIELD_BITS ELSE SetMin(fit)

first_fit(bitfield, base, size, align) ==
  lowest_fit({i \in clear_bits(bitfield) : (base + i * size) % align = 0})

page_allocate_at(bitfield, base, size, idx) ==
  IF idx = BITFIELD_BITS
  THEN [ptr |-> 0, bitfield |-> bitfield]
  ELSE [ptr |-> base + idx * size, bitfield |-> set_bit(bitfield, idx)]

\* AllocablePage::allocate: first fit under the alignment; ptr 0 is null
page_allocate(bitfield, base, size, align) ==
  page_allocate_at(bitfield, base, size, first_fit(bitfield, base, size, align))

page_deallocate_at(bitfield, ptr_offset, size, idx) ==
  IF /\ ptr_offset % size = 0
     /\ idx < cmin((PAGE_SIZE - METADATA_SIZE) \div size, BITFIELD_BITS)
     /\ is_allocated(bitfield, idx)
  THEN [ok |-> TRUE, bitfield |-> clear_bit(bitfield, idx)]
  ELSE [ok |-> FALSE, bitfield |-> bitfield]

\* AllocablePage::deallocate: clears the slot's bit, or reports an error
page_deallocate(bitfield, base, ptr, size) ==
  page_deallocate_at(bitfield, ptr - base, size, (ptr - base) \div size)

\* clear_metadata: links, heap id and bitfield are zeroed
clear_metadata == [bitfield |-> [inv |-> FALSE, s |-> {}], heap_id |-> 0]

(***************************************************************************)
(* PageList (module pages): the pages of a list, head first                *)
(***************************************************************************)
insert_front(list, page) == <<page>> \o list

pop(list) == Tail(list)

contains(list, page) == \E i \in 1..Len(list) : list[i] = page

remove_from_list(list, page) ==
  SelectSeq(list, LAMBDA p : p # page)

(***************************************************************************)
(* SCAllocator (sc.rs)                                                     *)
(***************************************************************************)
\* an allocator that counts its slots over the whole page, metadata included
new_sc_allocator_whole_page(size) ==
  [ size |-> size,
    allocation_count |-> 0,
    obj_per_page |-> cmin(PAGE_SIZE \div size, 8 * 64),
    empty_slabs |-> <<>>,
    slabs |-> <<>>,
    full_slabs |-> <<>> ]

new_sc_allocator(size) ==
  [ size |-> size,
    allocation_count |-> 0,
    obj_per_page |-> cmin((PAGE_SIZE - METADATA_SIZE) \div size, 8 * 64),
    empty_slabs |-> <<>>,
    slabs |-> <<>>,
    full_slabs |-> <<>> ]

SCPages(sca) ==
  {sca.empty_slabs[i] : i \in 1..Len(sca.empty_slabs)}
  \cup {sca.slabs[i] : i \in 1..Len(sca.slabs)}
  \cup {sca.full_slabs[i] : i \in 1..Len(sca.full_slabs)}

\* a move into the wrong list
move_to_empty_into_full(sca, page_addr) ==
  [sca EXCEPT !.slabs = remove_from_list(sca.slabs, page_addr),
              !.full_slabs = insert_front(sca.full_slabs, page_addr)]

move_to_empty(sca, page_addr) ==
  [sca EXCEPT !.slabs = remove_from_list(sca.slabs, page_addr),
              !.empty_slabs = insert_front(sca.empty_slabs, page_addr)]

\* a move that leaves the page in the list it came from
move_partial_to_full_kept(sca, page_addr) ==
  [sca EXCEPT !.full_slabs = insert_front(sca.full_slabs, page_addr)]

move_partial_to_full(sca, page_addr) ==
  [sca EXCEPT !.slabs = remove_from_list(sca.slabs, page_addr),
              !.full_slabs = insert_front(sca.full_slabs, page_addr)]

\* a move into the wrong list
move_full_to_partial_into_empty(sca, page_addr) ==
  [sca EXCEPT !.full_slabs = remove_from_list(sca.full_slabs, page_addr),
              !.empty_slabs = insert_front(sca.empty_slabs, page_addr)]

move_full_to_partial(sca, page_addr) ==
  [sca EXCEPT !.full_slabs = remove_from_list(sca.full_slabs, page_addr),
              !.slabs = insert_front(sca.slabs, page_addr)]

\* a loop body that leaves a page it has filled in the partial list
try_allocate_served_unmoved(sca, mem, slab_page, r) ==
  [sca |-> [sca EXCEPT !.allocation_count = @ + 1],
   mem |-> [mem EXCEPT ![slab_page].bitfield = r.bitfield],
   ptr |-> r.ptr]

\* the body of the loop for the page that serves: r is what slab_page.allocate
\* returned
try_allocate_served(sca, mem, slab_page, r) ==
  [sca |-> [(IF is_full(r.bitfield)
             THEN move_partial_to_full(sca, slab_page)
             ELSE sca) EXCEPT !.allocation_count = @ + 1],
   mem |-> [mem EXCEPT ![slab_page].bitfield = r.bitfield],
   ptr |-> r.ptr]

try_allocate_in(sca, mem, size, align, slab_page) ==
  try_allocate_served(sca, mem, slab_page,
    page_allocate(mem[slab_page].bitfield, slab_page, size, align))

\* the pages of `slabs`, by their place in the list, that can serve sc_layout
serving_pages(sca, mem, size, align) ==
  {i \in 1..Len(sca.slabs) :
     first_fit(mem[sca.slabs[i]].bitfield, sca.slabs[i], size, align)
       # BITFIELD_BITS}

try_allocate_first(sca, mem, size, align, serving) ==
  IF serving = {}
  THEN [sca |-> sca, mem |-> mem, ptr |-> 0]
  ELSE try_allocate_in(sca, mem, size, align, sca.slabs[SetMin(serving)])

\* the first page of `slabs` that can serve sc_layout serves it
try_allocate_from_pagelist(sca, mem, size, align) ==
  try_allocate_first(sca, mem, size, align,
                     serving_pages(sca, mem, size, align))

\* a new_layout that drops the caller's alignment
sc_new_layout_unaligned(sca, layout) == [size |-> sca.size, align |-> 1]

\* a new_layout that keeps the caller's size
sc_new_layout_caller_size(sca, layout) ==
  [size |-> layout.size, align |-> layout.align]

\* the new_layout of allocate and deallocate: the class size, the caller's align
sc_new_layout(sca, layout) == [size |-> sca.size, align |-> layout.align]

\* a refill that takes the whole page, metadata included, as capacity
sc_refill_whole_page(sca, mem, mp, heap_id) ==
  [sca |-> [sca EXCEPT !.empty_slabs = insert_front(sca.empty_slabs, mp)],
   mem |-> [mem EXCEPT ![mp] =
              [clear_metadata EXCEPT
                 !.bitfield = initialize(sca.size, PAGE_SIZE),
                 !.heap_id = heap_id]]]

\* a refill that keeps the bitfield the page comes with
sc_refill_bitfield_kept(sca, mem, mp, heap_id) ==
  [sca |-> [sca EXCEPT !.empty_slabs = insert_front(sca.empty_slabs, mp)],
   mem |-> [mem EXCEPT ![mp].heap_id = heap_id]]

\* a refill that zeroes the metadata and sets no sentinel bit
sc_refill_zeroed(sca, mem, mp, heap_id) ==
  [sca |-> [sca EXCEPT !.empty_slabs = insert_front(sca.empty_slabs, mp)],
   mem |-> [mem EXCEPT ![mp] = [clear_metadata EXCEPT !.heap_id = heap_id]]]

sc_refill(sca, mem, mp, heap_id) ==
  [sca |-> [sca EXCEPT !.empty_slabs = insert_front(sca.empty_slabs, mp)],
   mem |-> [mem EXCEPT ![mp] =
              [clear_metadata EXCEPT
                 !.bitfield = initialize(sca.size, PAGE_SIZE - METADATA_SIZE),
                 !.heap_id = heap_id]]]

\* the retry in the popped empty page: r is what empty_page.allocate(layout)
\* returned; asserted: "Allocation must have succeeded here."
sc_allocate_popped(sca, mem, empty_page, r) ==
  [sca |-> [sca EXCEPT !.empty_slabs = pop(sca.empty_slabs),
                       !.slabs = insert_front(sca.slabs, empty_page)],
   mem |-> [mem EXCEPT ![empty_page].bitfield = r.bitfield],
   ptr |-> r.ptr,
   asserted |-> r.ptr # 0]

sc_allocate_empty(sca, mem, layout, empty_page) ==
  sc_allocate_popped(sca, mem, empty_page,
    page_allocate(mem[empty_page].bitfield, empty_page,
                  layout.size, layout.align))

\* an allocate that keeps one empty page back
sc_allocate_after_keeping_one(sca, mem, layout, t) ==
  IF t.ptr = 0 /\ Len(sca.empty_slabs) > 1
  THEN sc_allocate_empty(sca, mem, layout, Head(sca.empty_slabs))
  ELSE [sca |-> t.sca, mem |-> t.mem, ptr |-> t.ptr, asserted |-> TRUE]

\* an allocate that takes an empty page whenever there is one
sc_allocate_after_empty_first(sca, mem, layout, t) ==
  IF Len(sca.empty_slabs) > 0
  THEN sc_allocate_empty(sca, mem, layout, Head(sca.empty_slabs))
  ELSE [sca |-> t.sca, mem |-> t.mem, ptr |-> t.ptr, asserted |-> TRUE]

\* t is what try_allocate_from_pagelist returned
sc_allocate_after(sca, mem, layout, t) ==
  IF t.ptr = 0 /\ Len(sca.empty_slabs) > 0
  THEN sc_allocate_empty(sca, mem, layout, Head(sca.empty_slabs))
  ELSE [sca |-> t.sca, mem |-> t.mem, ptr |-> t.ptr, asserted |-> TRUE]

sc_allocate_with(sca, mem, layout, new_layout) ==
  sc_allocate_after(sca, mem, layout,
    try_allocate_from_pagelist(sca, mem, new_layout.size, new_layout.align))

\* SCAllocator::allocate; ptr 0 is Err("AllocationError::OutOfMemory")
sc_allocate(sca, mem, layout) ==
  sc_allocate_with(sca, mem, layout, sc_new_layout(sca, layout))

\* a deallocate that tests emptiness on one slot too few
sc_deallocate_moves_short(sca, mem, page, slab_page_was_full, ret) ==
  IF is_empty(ret.bitfield, sca.obj_per_page - 1)
  THEN [sca |-> IF contains(sca.slabs, page)
                THEN move_to_empty(sca, page) ELSE sca,
        mem |-> mem, ok |-> ret.ok,
        panic |-> ~contains(sca.slabs, page),
        asserted |-> ret.ok]
  ELSE IF slab_page_was_full
  THEN [sca |-> IF contains(sca.full_slabs, page)
                THEN move_full_to_partial(sca, page) ELSE sca,
        mem |-> mem, ok |-> ret.ok,
        panic |-> ~contains(sca.full_slabs, page),
        asserted |-> ret.ok]
  ELSE [sca |-> sca, mem |-> mem, ok |-> ret.ok,
        panic |-> FALSE, asserted |-> ret.ok]

\* a deallocate that leaves a page that was full in full_slabs
sc_deallocate_moves_stay_full(sca, mem, page, slab_page_was_full, ret) ==
  IF is_empty(ret.bitfield, sca.obj_per_page)
  THEN [sca |-> IF contains(sca.slabs, page)
                THEN move_to_empty(sca, page) ELSE sca,
        mem |-> mem, ok |-> ret.ok,
        panic |-> ~contains(sca.slabs, page),
        asserted |-> ret.ok]
  ELSE [sca |-> sca, mem |-> mem, ok |-> ret.ok,
        panic |-> FALSE, asserted |-> ret.ok]

\* a deallocate that takes every page that was not full for an empty one
sc_deallocate_moves_unless_full(sca, mem, page, slab_page_was_full, ret) ==
  IF ~slab_page_was_full
  THEN [sca |-> IF contains(sca.slabs, page)
                THEN move_to_empty(sca, page) ELSE sca,
        mem |-> mem, ok |-> ret.ok,
        panic |-> ~contains(sca.slabs, page),
        asserted |-> ret.ok]
  ELSE [sca |-> IF contains(sca.full_slabs, page)
                THEN move_full_to_partial(sca, page) ELSE sca,
        mem |-> mem, ok |-> ret.ok,
        panic |-> ~contains(sca.full_slabs, page),
        asserted |-> ret.ok]

\* the list moves of deallocate: ret is what slab_page.deallocate returned;
\* asserted: the debug assertions of deallocate and of the move helpers hold;
\* panic: the unwrap() of a page that is not in the list it is taken from
sc_deallocate_moves(sca, mem, page, slab_page_was_full, ret) ==
  IF is_empty(ret.bitfield, sca.obj_per_page)
  THEN [sca |-> IF contains(sca.slabs, page)
                THEN move_to_empty(sca, page) ELSE sca,
        mem |-> mem, ok |-> ret.ok,
        panic |-> ~contains(sca.slabs, page),
        asserted |-> ret.ok /\ contains(sca.slabs, page)
                     /\ ~contains(sca.empty_slabs, page)]
  ELSE IF slab_page_was_full
  THEN [sca |-> IF contains(sca.full_slabs, page)
                THEN move_full_to_partial(sca, page) ELSE sca,
        mem |-> mem, ok |-> ret.ok,
        panic |-> ~contains(sca.full_slabs, page),
        asserted |-> ret.ok /\ contains(sca.full_slabs, page)
                     /\ ~contains(sca.slabs, page)]
  ELSE [sca |-> sca, mem |-> mem, ok |-> ret.ok,
        panic |-> FALSE, asserted |-> ret.ok]

\* a deallocate that does not reach the page's bitfield
sc_deallocate_ret_unwritten(sca, mem, page, ret) ==
  sc_deallocate_moves(sca, mem, page, is_full(mem[page].bitfield), ret)

sc_deallocate_ret(sca, mem, page, ret) ==
  sc_deallocate_moves(sca, [mem EXCEPT ![page].bitfield = ret.bitfield], page,
                      is_full(mem[page].bitfield), ret)

sc_deallocate_page(sca, mem, ptr, new_layout, page) ==
  sc_deallocate_ret(sca, mem, page,
    page_deallocate(mem[page].bitfield, page, ptr, new_layout.size))

\* SCAllocator::deallocate: the page is the one the masked pointer names
sc_deallocate(sca, mem, ptr, layout) ==
  sc_deallocate_page(sca, mem, ptr, sc_new_layout(sca, layout),
                     ptr - (ptr % PAGE_SIZE))

\* SCAllocator::retrieve_empty_page; page 0 is None
sc_retrieve_empty_page(sca) ==
  IF Len(sca.empty_slabs) > 0
  THEN [sca |-> [sca EXCEPT !.empty_slabs = pop(sca.empty_slabs)],
        page |-> Head(sca.empty_slabs)]
  ELSE [sca |-> sca, page |-> 0]

Reverse(list) == [i \in 1..Len(list) |-> list[Len(list) + 1 - i]]

\* a merge that leaves out the loop over the full list
sc_merge_without_full(sca, allocator) ==
  [sca |-> [sca EXCEPT
              !.empty_slabs = Reverse(allocator.empty_slabs) \o @,
              !.slabs = Reverse(allocator.slabs) \o @],
   allocator |-> [allocator EXCEPT !.empty_slabs = <<>>,
                                   !.slabs = <<>>]]

\* SCAllocator::merge: each list of `allocator` is popped head first into the
\* front of this one's; sc_merge_heap_ids is the set_heap_id of the moved pages
sc_merge(sca, allocator) ==
  [sca |-> [sca EXCEPT
              !.empty_slabs = Reverse(allocator.empty_slabs) \o @,
              !.slabs = Reverse(allocator.slabs) \o @,
              !.full_slabs = Reverse(allocator.full_slabs) \o @],
   allocator |-> [allocator EXCEPT !.empty_slabs = <<>>,
                                   !.slabs = <<>>,
                                   !.full_slabs = <<>>]]

sc_merge_heap_ids(mem, moved, heap_id) ==
  [p \in DOMAIN mem |->
     IF p \in moved THEN [mem[p] EXCEPT !.heap_id = heap_id] ELSE mem[p]]

\* SCAllocator::heap_id: the heap id of the first page of the list `kind`
sc_heap_id(sca, mem, kind) ==
  IF Len(sca[kind]) > 0
  THEN [some |-> TRUE, id |-> mem[Head(sca[kind])].heap_id]
  ELSE [some |-> FALSE, id |-> 0]

(***************************************************************************)
(* ZoneAllocator (zone.rs)                                                 *)
(***************************************************************************)
\* a Zone whose last class takes the whole page
new_zone_page_sized ==
  [c \in ClassIdx |->
     new_sc_allocator(IF c = MAX_BASE_SIZE_CLASSES - 1
                      THEN PAGE_SIZE ELSE BASE_ALLOC_SIZES[c + 1])]

new_zone == [c \in ClassIdx |-> new_sc_allocator(BASE_ALLOC_SIZES[c + 1])]

Unsupported == MAX_BASE_SIZE_CLASSES

\* a staircase whose steps exclude their upper ends
get_slab_exclusive(requested_size) ==
  IF requested_size < 8 THEN 0
  ELSE IF requested_size < 16 THEN 1
  ELSE IF requested_size < 32 THEN 2
  ELSE IF requested_size < 64 THEN 3
  ELSE IF requested_size < 128 THEN 4
  ELSE IF requested_size < 256 THEN 5
  ELSE IF requested_size < 512 THEN 6
  ELSE IF requested_size < 1024 THEN 7
  ELSE IF requested_size < 2048 THEN 8
  ELSE IF requested_size < 4096 THEN 9
  ELSE IF requested_size < MAX_ALLOC_SIZE THEN 10
  ELSE Unsupported

\* a staircase whose last step reaches the end of the page
get_slab_page_sized(requested_size) ==
  IF requested_size <= 8 THEN 0
  ELSE IF requested_size <= 16 THEN 1
  ELSE IF requested_size <= 32 THEN 2
  ELSE IF requested_size <= 64 THEN 3
  ELSE IF requested_size <= 128 THEN 4
  ELSE IF requested_size <= 256 THEN 5
  ELSE IF requested_size <= 512 THEN 6
  ELSE IF requested_size <= 1024 THEN 7
  ELSE IF requested_size <= 2048 THEN 8
  ELSE IF requested_size <= 4096 THEN 9
  ELSE IF requested_size <= PAGE_SIZE THEN 10
  ELSE Unsupported

\* get_slab: the index of the size class, or Unsupported
get_slab(requested_size) ==
  IF requested_size <= 8 THEN 0
  ELSE IF requested_size <= 16 THEN 1
  ELSE IF requested_size <= 32 THEN 2
  ELSE IF requested_size <= 64 THEN 3
  ELSE IF requested_size <= 128 THEN 4
  ELSE IF requested_size <= 256 THEN 5
  ELSE IF requested_size <= 512 THEN 6
  ELSE IF requested_size <= 1024 THEN 7
  ELSE IF requested_size <= 2048 THEN 8
  ELSE IF requested_size <= 4096 THEN 9
  ELSE IF requested_size <= MAX_ALLOC_SIZE THEN 10
  ELSE Unsupported

\* get_max_size: the size of the class of current_size, or None
get_max_size(current_size) ==
  IF current_size <= 8 THEN [some |-> TRUE, size |-> 8]
  ELSE IF current_size <= 16 THEN [some |-> TRUE, size |-> 16]
  ELSE IF current_size <= 32 THEN [some |-> TRUE, size |-> 32]
  ELSE IF current_size <= 64 THEN [some |-> TRUE, size |-> 64]
  ELSE IF current_size <= 128 THEN [some |-> TRUE, size |-> 128]
  ELSE IF current_size <= 256 THEN [some |-> TRUE, size |-> 256]
  ELSE IF current_size <= 512 THEN [some |-> TRUE, size |-> 512]
  ELSE IF current_size <= 1024 THEN [some |-> TRUE, size |-> 1024]
  ELSE IF current_size <= 2048 THEN [some |-> TRUE, size |-> 2048]
  ELSE IF current_size <= 4096 THEN [some |-> TRUE, size |-> 4096]
  ELSE IF current_size <= MAX_ALLOC_SIZE
  THEN [some |-> TRUE, size |-> MAX_ALLOC_SIZE]
  ELSE [some |-> FALSE, size |-> 0]

zone_heap_id(zone, mem, kind) == sc_heap_id(zone[0], mem, kind)

zone_refill_at(zone, mem, idx, r) ==
  [zone |-> [zone EXCEPT ![idx] = r.sca], mem |-> r.mem, err |-> NoErr]

zone_refill(zone, mem, layout, mp, heap_id) ==
  IF get_slab(layout.size) = Unsupported
  THEN [zone |-> zone, mem |-> mem, err |-> ErrInvalidLayout]
  ELSE zone_refill_at(zone, mem, get_slab(layout.size),
         sc_refill(zone[get_slab(layout.size)], mem, mp, heap_id))

\* the largest number of empty pages of a class
max_empty_pages(zone) ==
  CHOOSE n \in 0..NumPages :
    /\ \A i \in ClassIdx : Len(zone[i].empty_slabs) <= n
    /\ n = 0 \/ \E i \in ClassIdx : Len(zone[i].empty_slabs) = n

\* the first class with the strictly largest number of empty pages
small_slab_with_max_empty_pages(zone) ==
  [max_empty_pages |-> max_empty_pages(zone),
   id |-> IF max_empty_pages(zone) = 0 THEN 0
          ELSE SetMin({i \in ClassIdx :
                         Len(zone[i].empty_slabs) = max_empty_pages(zone)})]

empty_pages(zone) ==
  Cardinality({x \in ClassIdx \X (1..NumPages) :
                 x[2] <= Len(zone[x[1]].empty_slabs)})

zone_retrieve_from(zone, idx, r) ==
  [zone |-> [zone EXCEPT ![idx] = r.sca], page |-> r.page]

\* a retrieve that keeps one empty page back
zone_retrieve_max_above_one(zone, m) ==
  IF m.max_empty_pages > SLAB_EMPTY_PAGES_THRESHOLD + 1
  THEN zone_retrieve_from(zone, m.id, sc_retrieve_empty_page(zone[m.id]))
  ELSE [zone |-> zone, page |-> 0]

zone_retrieve_max(zone, m) ==
  IF m.max_empty_pages > SLAB_EMPTY_PAGES_THRESHOLD
  THEN zone_retrieve_from(zone, m.id, sc_retrieve_empty_page(zone[m.id]))
  ELSE [zone |-> zone, page |-> 0]

\* ZoneAllocator::retrieve_empty_page; page 0 is None
zone_retrieve_empty_page(zone) ==
  zone_retrieve_max(zone, small_slab_with_max_empty_pages(zone))

\* an exchange that withdraws the page and does not refill it
exchange_refill_dropped(zone, mem, layout, heap_id, r) ==
  IF r.page = 0
  THEN [zone |-> zone, mem |-> mem, err |-> ErrNoEmptyPage]
  ELSE [zone |-> r.zone, mem |-> mem, err |-> NoErr]

exchange_refill(zone, mem, layout, heap_id, r) ==
  IF r.page = 0
  THEN [zone |-> zone, mem |-> mem, err |-> ErrNoEmptyPage]
  ELSE zone_refill(r.zone, mem, layout, r.page, heap_id)

exchange_pages_within_heap(zone, mem, layout, heap_id) ==
  exchange_refill(zone, mem, layout, heap_id, zone_retrieve_empty_page(zone))

Result(zone, mem, ptr, err, asserted) ==
  [zone |-> zone, mem |-> mem, ptr |-> ptr, err |-> err, asserted |-> asserted]

\* the second allocate of the class: b is what it returned
zone_allocate_second(zone, idx, asserted, b) ==
  Result([zone EXCEPT ![idx] = b.sca], b.mem, b.ptr,
         IF b.ptr # 0 THEN NoErr ELSE ErrOutOfMemory,
         asserted /\ b.asserted)

\* x is what exchange_pages_within_heap returned
zone_allocate_exchanged(layout, idx, asserted, x) ==
  IF x.err # NoErr
  THEN Result(x.zone, x.mem, 0, x.err, asserted)
  ELSE zone_allocate_second(x.zone, idx, asserted,
         sc_allocate(x.zone[idx], x.mem, layout))

\* h is what self.heap_id() returned
zone_allocate_exchange(zone, mem, layout, idx, asserted, h) ==
  IF ~h.some
  THEN Result(zone, mem, 0, ErrNoPagesInHeap, asserted)
  ELSE zone_allocate_exchanged(layout, idx, asserted,
         exchange_pages_within_heap(zone, mem, layout, h.id))

zone_allocate_failed(zone, mem, layout, kind, idx, asserted) ==
  zone_allocate_exchange(zone, mem, layout, idx, asserted,
                         zone_heap_id(zone, mem, kind))

\* an allocate that, once served, gives up an empty page of the Zone
zone_allocate_first_trimmed(zone, layout, kind, idx, a) ==
  IF a.ptr # 0
  THEN Result(zone_retrieve_empty_page([zone EXCEPT ![idx] = a.sca]).zone,
              a.mem, a.ptr, NoErr, a.asserted)
  ELSE zone_allocate_failed([zone EXCEPT ![idx] = a.sca], a.mem, layout, kind,
                            idx, a.asserted)

\* a is what the first allocate of the class returned
zone_allocate_first(zone, layout, kind, idx, a) ==
  IF a.ptr # 0
  THEN Result([zone EXCEPT ![idx] = a.sca], a.mem, a.ptr, NoErr, a.asserted)
  ELSE zone_allocate_failed([zone EXCEPT ![idx] = a.sca], a.mem, layout, kind,
                            idx, a.asserted)

\* ZoneAllocator::allocate; kind: the list SCAllocator::heap_id reads
zone_allocate(zone, mem, layout, kind) ==
  IF get_slab(layout.size) = Unsupported
  THEN Result(zone, mem, 0, ErrInvalidLayout, TRUE)
  ELSE zone_allocate_first(zone, layout, kind, get_slab(layout.size),
         sc_allocate(zone[get_slab(layout.size)], mem, layout))

zone_deallocate_at(zone, idx, r) ==
  [zone |-> [zone EXCEPT ![idx] = r.sca], mem |-> r.mem,
   err |-> IF r.ok THEN NoErr ELSE "page deallocate error",
   panic |-> r.panic, asserted |-> r.asserted]

zone_deallocate(zone, mem, ptr, layout) ==
  IF get_slab(layout.size) = Unsupported
  THEN [zone |-> zone, mem |-> mem, err |-> ErrInvalidLayout,
        panic |-> FALSE, asserted |-> TRUE]
  ELSE zone_deallocate_at(zone, get_slab(layout.size),
         sc_deallocate(zone[get_slab(layout.size)], mem, ptr, layout))

\* ZoneAllocator::merge: the classes are merged one by one
zone_merge(zone, allocator, mem, heap_id) ==
  [zone |-> [i \in ClassIdx |-> sc_merge(zone[i], allocator[i]).sca],
   allocator |-> [i \in ClassIdx |-> sc_merge(zone[i], allocator[i]).allocator],
   mem |-> sc_merge_heap_ids(mem, UNION {SCPages(allocator[i]) : i \in ClassIdx},
                             heap_id)]

(***************************************************************************)
(* State                                                                   *)
(*   zones     the ZoneAllocators (one per heap): arrays of SCAllocator    *)
(*   mem       the metadata kept in the memory of every backing page       *)
(*   live      the allocations the callers hold: pointer and serving class *)
(*   panicked  a call has panicked                                         *)
(*   run       the position and the last result of a scripted caller       *)
(*             (SpecFill, SpecReuse)                                       *)
(***************************************************************************)
VARIABLES zones, mem, live, panicked, run

vars == <<zones, mem, live, panicked, run>>

NoLayout == [size |-> 0, align |-> 0]

RunIdle == [phase |-> "idle", layout |-> NoLayout, n |-> 0, count |-> 0,
            refills |-> 0, err |-> NoErr, in_class |-> TRUE,
            from |-> NoLayout]

HeldBy(z) == UNION {SCPages(zones[z][c]) : c \in ClassIdx}

Held == UNION {HeldBy(z) : z \in Zones}

\* the allocations counted by all the SCAllocators of all the heaps
AllocationCount(zs) ==
  Cardinality({x \in Zones \X ClassIdx \X (1..MaxAllocationCount + 1) :
                 x[3] <= zs[x[1]][x[2]].allocation_count})

PageOf(ptr) == ptr - (ptr % PAGE_SIZE)

Alloc(ptr, idx) == [ptr |-> ptr, idx |-> idx]

Init ==
  /\ zones = [z \in Zones |-> new_zone]
  /\ mem = [p \in PageAddrs |-> clear_metadata]
  /\ live = {}
  /\ panicked = FALSE
  /\ run = RunIdle

RefillReturns(z, r) ==
  /\ zones' = [zones EXCEPT ![z] = r.zone]
  /\ mem' = r.mem
  /\ UNCHANGED <<live, panicked, run>>

\* Zone::refill of the page the provider hands out: its lowest free one
Refill(z, layout, page, heap_id) ==
  /\ ~panicked
  /\ page \notin Held
  /\ \A q \in PageAddrs \ Held : page <= q
  /\ RefillReturns(z, zone_refill(zones[z], mem, layout, page, heap_id))

AllocateReturns(z, idx, zone, r) ==
  /\ AllocationCount([zones EXCEPT ![z] = zone]) <= MaxAllocationCount
  /\ zones' = [zones EXCEPT ![z] = zone]
  /\ mem' = r.mem
  /\ live' = IF r.ptr # 0 THEN live \cup {Alloc(r.ptr, idx)} ELSE live
  /\ UNCHANGED <<panicked, run>>

ZoneAllocateReturns(z, idx, r) == AllocateReturns(z, idx, r.zone, r)

\* Zone::allocate; which list heap_id reads matters only to an allocation
\* whose first attempt fails
Allocate(z, layout, kind) ==
  /\ ~panicked
  /\ Cardinality(live) < MaxLive
  /\ \/ kind = "empty_slabs"
     \/ sc_allocate(zones[z][get_slab(layout.size)], mem, layout).ptr = 0
  /\ ZoneAllocateReturns(z, get_slab(layout.size),
                         zone_allocate(zones[z], mem, layout, kind))

SCAllocateReturns(z, idx, r) ==
  AllocateReturns(z, idx, [zones[z] EXCEPT ![idx] = r.sca], r)

\* SCAllocator::allocate on the allocator of the layout's class
SCAllocate(z, layout) ==
  /\ ~panicked
  /\ Cardinality(live) < MaxLive
  /\ SCAllocateReturns(z, get_slab(layout.size),
       sc_allocate(zones[z][get_slab(layout.size)], mem, layout))

DeallocateReturns(z, a, r) ==
  /\ zones' = [zones EXCEPT ![z] = r.zone]
  /\ mem' = r.mem
  /\ panicked' = r.panic
  /\ live' = live \ {a}
  /\ UNCHANGED run

\* Zone::deallocate of an allocation the caller holds, with a layout of its class
Deallocate(z, a, layout) ==
  /\ ~panicked
  /\ a \in live
  /\ get_slab(layout.size) = a.idx
  /\ PageOf(a.ptr) \in SCPages(zones[z][a.idx])
  /\ DeallocateReturns(z, a, zone_deallocate(zones[z], mem, a.ptr, layout))

RetrieveReturns(z, r) ==
  /\ zones' = [zones EXCEPT ![z] = r.zone]
  /\ mem' = IF r.page = 0 THEN mem ELSE [mem EXCEPT ![r.page] = clear_metadata]
  /\ UNCHANGED <<live, panicked, run>>

\* Zone::retrieve_empty_page: the page goes back to the provider, which hands
\* out zeroed pages
RetrieveEmptyPage(z) ==
  /\ ~panicked
  /\ RetrieveReturns(z, zone_retrieve_empty_page(zones[z]))

MergeReturns(z, o, r) ==
  /\ zones' = [zones EXCEPT ![z] = r.zone, ![o] = r.allocator]
  /\ mem' = r.mem
  /\ UNCHANGED <<live, panicked, run>>

\* Zone::merge of the heap o into the heap z
Merge(z, o, heap_id) ==
  /\ ~panicked
  /\ z # o
  /\ MergeReturns(z, o, zone_merge(zones[z], zones[o], mem, heap_id))

Next ==
  \/ \E z \in Zones, layout \in Layouts, page \in PageAddrs :
       Refill(z, layout, page, z)
  \/ \E z \in Zones, layout \in Layouts, kind \in ListKinds :
       Allocate(z, layout, kind)
  \/ \E z \in Zones, layout \in Layouts : SCAllocate(z, layout)
  \/ \E z \in Zones, a \in live, layout \in Layouts : Deallocate(z, a, layout)
  \/ \E z \in Zones : RetrieveEmptyPage(z)
  \/ \E z \in Zones, o \in Zones : Merge(z, o, z)

Spec == Init /\ [][Next]_vars

(***************************************************************************)
(* SpecFill: a new Zone is refilled with one page for a size class and     *)
(* then allocates with align 1 until an allocation fails.                  *)
(*   run.layout    the layout of the refill: the class size s              *)
(*   run.count     the allocations that succeeded                          *)
(*   run.err       the error of the allocation that failed                 *)
(*   run.in_class  every size asked for selects the class of s             *)
(***************************************************************************)
ClassLayouts == {[size |-> BASE_ALLOC_SIZES[c + 1], align |-> 1] : c \in ClassIdx}

\* the sizes the caller asks for: s, one less, and half of s
FillSizes(s) == {s, s - 1, s \div 2}

FillRefillReturns(layout, r) ==
  /\ zones' = [zones EXCEPT ![1] = r.zone]
  /\ mem' = r.mem
  /\ run' = [run EXCEPT !.phase = "fill", !.layout = layout]
  /\ UNCHANGED <<live, panicked>>

FillRefill(layout) ==
  /\ run.phase = "idle"
  /\ FillRefillReturns(layout,
       zone_refill(zones[1], mem, layout, SetMin(PageAddrs), 1))

FillAllocateReturns(size, r) ==
  /\ zones' = [zones EXCEPT ![1] = r.zone]
  /\ mem' = r.mem
  /\ live' = IF r.ptr # 0 THEN live \cup {Alloc(r.ptr, get_slab(size))} ELSE live
  /\ run' = [run EXCEPT
               !.phase = IF r.ptr # 0 THEN "fill" ELSE "out",
               !.count = IF r.ptr # 0 THEN @ + 1 ELSE @,
               !.err = r.err,
               !.in_class = @ /\ get_slab(size) = get_slab(run.layout.size)]
  /\ UNCHANGED panicked

FillAllocate(size, kind) ==
  /\ run.phase = "fill"
  /\ FillAllocateReturns(size,
       zone_allocate(zones[1], mem, [size |-> size, align |-> 1], kind))

NextFill ==
  \/ \E layout \in ClassLayouts : FillRefill(layout)
  \/ \E size \in FillSizes(run.layout.size), kind \in ListKinds :
       FillAllocate(size, kind)

SpecFill == Init /\ [][NextFill]_vars

(***************************************************************************)
(* SpecReuse: the reuse run on one SCAllocator (tests.rs, test_sc_allocation):*)
(* allocate run.n objects, refilling a page whenever allocate reports      *)
(* OutOfMemory; deallocate them all, in any order; allocate run.n again.   *)
(***************************************************************************)
ReuseStart(layout, n) ==
  /\ run.phase = "idle"
  /\ run' = [run EXCEPT !.phase = "first", !.layout = layout, !.n = n]
  /\ UNCHANGED <<zones, mem, live, panicked>>

ReuseAllocateReturns(idx, r) ==
  /\ zones' = [zones EXCEPT ![1][idx] = r.sca]
  /\ mem' = r.mem
  /\ live' = IF r.ptr # 0 THEN live \cup {Alloc(r.ptr, idx)} ELSE live
  /\ run' = [run EXCEPT !.count = IF r.ptr # 0 THEN @ + 1 ELSE @,
                        !.err = IF r.ptr # 0 THEN NoErr ELSE ErrOutOfMemory]
  /\ UNCHANGED panicked

ReuseAllocate ==
  /\ run.phase \in {"first", "second"}
  /\ run.count < run.n
  /\ run.err = NoErr
  /\ ReuseAllocateReturns(get_slab(run.layout.size),
       sc_allocate(zones[1][get_slab(run.layout.size)], mem, run.layout))

ReuseRefillReturns(idx, r) ==
  /\ zones' = [zones EXCEPT ![1][idx] = r.sca]
  /\ mem' = r.mem
  /\ run' = [run EXCEPT !.err = NoErr, !.refills = @ + 1]
  /\ UNCHANGED <<live, panicked>>

ReuseRefill(page) ==
  /\ run.phase = "first"
  /\ run.err = ErrOutOfMemory
  /\ page \notin Held
  /\ \A q \in PageAddrs \ Held : page <= q
  /\ ReuseRefillReturns(get_slab(run.layout.size),
       sc_refill(zones[1][get_slab(run.layout.size)], mem, page, 1))

ReuseDeallocateReturns(a, r) ==
  /\ zones' = [zones EXCEPT ![1][a.idx] = r.sca]
  /\ mem' = r.mem
  /\ panicked' = r.panic
  /\ live' = live \ {a}
  /\ run' = IF live = {a}
            THEN [run EXCEPT !.phase = "second", !.count = 0]
            ELSE [run EXCEPT !.phase = "free"]

ReuseDeallocate(a) ==
  /\ run.phase \in {"first", "free"}
  /\ run.count = run.n
  /\ ~panicked
  /\ ReuseDeallocateReturns(a,
       sc_deallocate(zones[1][a.idx], mem, a.ptr, run.layout))

NextReuse ==
  \/ \E layout \in Layouts, n \in 1..MaxObjects : ReuseStart(layout, n)
  \/ ReuseAllocate
  \/ \E page \in PageAddrs : ReuseRefill(page)
  \/ \E a \in live : ReuseDeallocate(a)

SpecReuse == Init /\ [][NextReuse]_vars

(***************************************************************************)
(* SpecReclass: a page is refilled into a class A, left alone or allocated *)
(* from and freed again, retrieved, and refilled into a class B as it is;  *)
(* then the Zone allocates from class B until an allocation fails.         *)
(*   run.from    the layout of the first refill: the class A               *)
(*   run.n       the allocations made in class A                           *)
(*   run.layout  the layout of the second refill: the class B              *)
(*   run.count   the allocations of class B that succeeded                 *)
(***************************************************************************)
ReclassRefillReturns(layout, r) ==
  /\ zones' = [zones EXCEPT ![1] = r.zone]
  /\ mem' = r.mem
  /\ run' = [run EXCEPT !.phase = "first", !.from = layout, !.refills = 1]
  /\ UNCHANGED <<live, panicked>>

ReclassRefill(layout) ==
  /\ run.phase = "idle"
  /\ ReclassRefillReturns(layout,
       zone_refill(zones[1], mem, layout, SetMin(PageAddrs), 1))

ReclassAllocateReturns(r) ==
  /\ r.ptr # 0
  /\ zones' = [zones EXCEPT ![1] = r.zone]
  /\ mem' = r.mem
  /\ live' = live \cup {Alloc(r.ptr, get_slab(run.from.size))}
  /\ run' = [run EXCEPT !.n = @ + 1]
  /\ UNCHANGED panicked

ReclassAllocate ==
  /\ run.phase = "first"
  /\ run.n = 0
  /\ ReclassAllocateReturns(zone_allocate(zones[1], mem, run.from, "slabs"))

ReclassDeallocateReturns(a, r) ==
  /\ zones' = [zones EXCEPT ![1] = r.zone]
  /\ mem' = r.mem
  /\ panicked' = r.panic
  /\ live' = live \ {a}
  /\ UNCHANGED run

ReclassDeallocate(a) ==
  /\ run.phase = "first"
  /\ ~panicked
  /\ ReclassDeallocateReturns(a,
       zone_deallocate(zones[1], mem, a.ptr, run.from))

ReclassRetrieveReturns(r) ==
  /\ r.page # 0
  /\ zones' = [zones EXCEPT ![1] = r.zone]
  /\ run' = [run EXCEPT !.phase = "retrieved"]
  /\ UNCHANGED <<mem, live, panicked>>

ReclassRetrieve ==
  /\ run.phase = "first"
  /\ live = {}
  /\ ReclassRetrieveReturns(zone_retrieve_empty_page(zones[1]))

ReclassRefillAgainReturns(layout, r) ==
  /\ zones' = [zones EXCEPT ![1] = r.zone]
  /\ mem' = r.mem
  /\ run' = [run EXCEPT !.phase = "fill", !.layout = layout, !.refills = 2]
  /\ UNCHANGED <<live, panicked>>

ReclassRefillAgain(layout) ==
  /\ run.phase = "retrieved"
  /\ ReclassRefillAgainReturns(layout,
       zone_refill(zones[1], mem, layout, SetMin(PageAddrs), 1))

NextReclass ==
  \/ \E layout \in ClassLayouts : ReclassRefill(layout)
  \/ ReclassAllocate
  \/ \E a \in live : ReclassDeallocate(a)
  \/ ReclassRetrieve
  \/ \E layout \in ClassLayouts : ReclassRefillAgain(layout)
  \/ \E kind \in ListKinds : FillAllocate(run.layout.size, kind)

SpecReclass == Init /\ [][NextReclass]_vars

(***************************************************************************)
(* SpecMap: the size-class mapping applied to a requested size.            *)
(*   run.size      the requested size                                      *)
(*   run.slab      what get_slab returned                                  *)
(*   run.max_size  what get_max_size returned                              *)
(***************************************************************************)
RequestedSizes == 0..(MAX_ALLOC_SIZE + MaxOversize)

NotMapped == [some |-> FALSE, size |-> 0]

InitMap ==
  /\ zones = [z \in Zones |-> new_zone]
  /\ mem = [p \in PageAddrs |-> clear_metadata]
  /\ live = {}
  /\ panicked = FALSE
  /\ \E size \in RequestedSizes :
       run = [phase |-> "size", size |-> size, slab |-> Unsupported,
              max_size |-> NotMapped]

GetSlab ==
  /\ run.phase = "size"
  /\ run' = [run EXCEPT !.phase = "slab", !.slab = get_slab(run.size)]
  /\ UNCHANGED <<zones, mem, live, panicked>>

GetMaxSize ==
  /\ run.phase = "slab"
  /\ run' = [run EXCEPT !.phase = "mapped",
                        !.max_size = get_max_size(run.size)]
  /\ UNCHANGED <<zones, mem, live, panicked>>

NextMap == GetSlab \/ GetMaxSize

SpecMap == InitMap /\ [][NextMap]_vars

(***************************************************************************)
(* Properties                                                              *)
(***************************************************************************)
ClassSize(idx) == BASE_ALLOC_SIZES[idx + 1]

\* the byte ranges of two allocations meet
Overlap(a, b) ==
  /\ a.ptr < b.ptr + ClassSize(b.idx)
  /\ b.ptr < a.ptr + ClassSize(a.idx)

\* the places <<heap, class, list, position>> at which page p is linked
Places(p) ==
  UNION {{<<x[1], x[2], x[3], i>> :
            i \in {j \in 1..Len(zones[x[1]][x[2]][x[3]]) :
                     zones[x[1]][x[2]][x[3]][j] = p}} :
         x \in Zones \X ClassIdx \X ListKinds}

\* the in-range bits of page p, held by a class of obj_per_page slots, that
\* are set
SetSlots(p, obj_per_page) ==
  {i \in 0..(obj_per_page - 1) : is_allocated(mem[p].bitfield, i)}

\* the error strings of the kind OutOfMemory: the targeted class has no
\* partial slot and no empty page, and the exchange found no donor
OutOfMemoryErrs == {ErrOutOfMemory, ErrNoPagesInHeap, ErrNoEmptyPage}

\* C1: no two live allocations occupy overlapping byte ranges: every live
\* allocation is slot i of its page, [base + i*s, base + (i+1)*s) inside the
\* data area, two live allocations never meet, and no allocate returns a
\* pointer whose range meets a live allocation.
C1_NoOverlap ==
  /\ \A a \in live :
       /\ (a.ptr - PageOf(a.ptr)) % ClassSize(a.idx) = 0
       /\ a.ptr + ClassSize(a.idx) <= PageOf(a.ptr) + PAGE_SIZE - METADATA_SIZE
  /\ \A a \in live, b \in live : a # b => ~Overlap(a, b)
  /\ \A z \in Zones, layout \in Layouts, kind \in ListKinds :
       zone_allocate(zones[z], mem, layout, kind).ptr # 0
       => \A a \in live :
            ~Overlap(a, Alloc(zone_allocate(zones[z], mem, layout, kind).ptr,
                              get_slab(layout.size)))

\* three allocations are live in one page, and a further allocate succeeds
C1_Witness ==
  /\ \E a \in live, b \in live, c \in live :
       /\ a.ptr < b.ptr /\ b.ptr < c.ptr
       /\ PageOf(a.ptr) = PageOf(c.ptr)
  /\ \E z \in Zones, layout \in Layouts :
       zone_allocate(zones[z], mem, layout, "empty_slabs").ptr # 0

\* C2: every page is linked at no more than one place: one list of one size
\* class of one heap; and the page of a live allocation is linked at exactly
\* one place, in the class that served it.
C2_OneList ==
  /\ \A p \in PageAddrs : Cardinality(Places(p)) <= 1
  /\ \A a \in live :
       \E x \in Places(PageOf(a.ptr)) :
         x[2] = a.idx /\ x[3] \in {"slabs", "full_slabs"}

\* both pages are linked, in different size classes of one heap, one of them
\* holding live allocations
C2_Witness ==
  \E z \in Zones, c \in ClassIdx, d \in ClassIdx :
    /\ c # d
    /\ Len(zones[z][c].full_slabs) = 1
    /\ Len(zones[z][d].empty_slabs) = 1

\* C3: every page in an empty list has all its in-range bits clear and holds
\* no live allocation, and so does the page retrieve_empty_page hands out.
C3_EmptyPagesClear ==
  /\ \A z \in Zones, c \in ClassIdx :
       \A i \in 1..Len(zones[z][c].empty_slabs) :
         /\ SetSlots(zones[z][c].empty_slabs[i], zones[z][c].obj_per_page) = {}
         /\ \A a \in live : PageOf(a.ptr) # zones[z][c].empty_slabs[i]
  /\ \A z \in Zones, a \in live :
       PageOf(a.ptr) # zone_retrieve_empty_page(zones[z]).page

\* the only linked page is an empty page of a class that has served
\* allocations from its partial list: deallocate has emptied it
C3_Witness ==
  \E z \in Zones, c \in ClassIdx :
    /\ zones[z][c].allocation_count > 0
    /\ Len(zones[z][c].empty_slabs) = 1
    /\ Held = {Head(zones[z][c].empty_slabs)}
    /\ live = {}

\* C4: every page in a partial list has at least one set and at least one
\* clear in-range bit; a page whose last free slot an allocate took is in the
\* full list.
C4_PartialPagesMixed ==
  \A z \in Zones, c \in ClassIdx :
    \A i \in 1..Len(zones[z][c].slabs) :
      /\ SetSlots(zones[z][c].slabs[i], zones[z][c].obj_per_page) # {}
      /\ SetSlots(zones[z][c].slabs[i], zones[z][c].obj_per_page)
           # 0..(zones[z][c].obj_per_page - 1)

\* C5: every page in a full list has all its in-range bits set.
C5_FullPagesSet ==
  \A z \in Zones, c \in ClassIdx :
    \A i \in 1..Len(zones[z][c].full_slabs) :
      /\ SetSlots(zones[z][c].full_slabs[i], zones[z][c].obj_per_page)
           = 0..(zones[z][c].obj_per_page - 1)
      /\ is_full(mem[zones[z][c].full_slabs[i]].bitfield)

\* a page of a class of several objects per page is in the full list, every
\* one of its slots live
C5_Witness ==
  \E z \in Zones, c \in ClassIdx :
    /\ zones[z][c].obj_per_page > 1
    /\ Len(zones[z][c].full_slabs) = 1
    /\ Cardinality(live) = zones[z][c].obj_per_page

C7_ExchangeServes ==
  \A z \in Zones, layout \in Layouts, kind \in ListKinds :
    /\ sc_allocate(zones[z][get_slab(layout.size)], mem, layout).ptr = 0
    /\ \E c \in ClassIdx : Len(zones[z][c].empty_slabs) > 0
    => zone_allocate(zones[z], mem, layout, kind).ptr # 0

\* C8: the second run of the reuse test meets no OutOfMemory.
C8_Reuse ==
  run.phase = "second" => run.err = NoErr

\* the second run has served all its objects, after a first run that took
\* two refills
C8_Witness ==
  /\ run.phase = "second"
  /\ run.count = run.n
  /\ run.refills = 2
  /\ Cardinality(live) = run.n

\* C9: when Zone.allocate or SCAllocator::allocate fails with an error of
\* the kind OutOfMemory, a refill of a free page for the layout's class
\* followed by the same allocate succeeds.
C9_RefillThenRetry ==
  \A z \in Zones, layout \in Layouts, page \in PageAddrs \ Held :
    /\ \A kind \in ListKinds :
         zone_allocate(zones[z], mem, layout, kind).err \in OutOfMemoryErrs
         => \A again \in ListKinds :
              zone_allocate(
                zone_refill(zone_allocate(zones[z], mem, layout, kind).zone,
                            zone_allocate(zones[z], mem, layout, kind).mem,
                            layout, page, z).zone,
                zone_refill(zone_allocate(zones[z], mem, layout, kind).zone,
                            zone_allocate(zones[z], mem, layout, kind).mem,
                            layout, page, z).mem,
                layout, again).ptr # 0
    /\ sc_allocate(zones[z][get_slab(layout.size)], mem, layout).ptr = 0
       => sc_allocate(
            sc_refill(zones[z][get_slab(layout.size)], mem, page, z).sca,
            sc_refill(zones[z][get_slab(layout.size)], mem, page, z).mem,
            layout).ptr # 0

\* the class of a layout holds a full page, Zone.allocate fails and a page is
\* free for the refill
C9_Witness ==
  \E z \in Zones, layout \in Layouts :
    /\ Len(zones[z][get_slab(layout.size)].full_slabs) > 0
    /\ zone_allocate(zones[z], mem, layout, "full_slabs").err
         \in OutOfMemoryErrs
    /\ PageAddrs \ Held # {}

\* C10: every pointer a successful allocate(layout) returns, from the Zone or
\* from the SCAllocator, is a multiple of layout.align.
C10_Aligned ==
  \A z \in Zones, layout \in Layouts :
    /\ \A kind \in ListKinds :
         zone_allocate(zones[z], mem, layout, kind).ptr % layout.align = 0
    /\ sc_allocate(zones[z][get_slab(layout.size)], mem, layout).ptr
         % layout.align = 0

\* an allocate of align 4096 returns a slot inside a page, passing over the
\* free slot below it
C10_Witness ==
  \E z \in Zones, layout \in Layouts :
    /\ layout.align = 4096
    /\ zone_allocate(zones[z], mem, layout, "slabs").ptr % PAGE_SIZE = 4096
    /\ \A a \in live :
         a.ptr # zone_allocate(zones[z], mem, layout, "slabs").ptr - 2048

\* the least class index whose size is at least s, for s <= MAX_ALLOC_SIZE
LeastClass(s) == SetMin({i \in ClassIdx : BASE_ALLOC_SIZES[i + 1] >= s})

\* C11: for a requested size s <= MAX_ALLOC_SIZE, get_slab(s) is the least
\* index i with BASE_ALLOC_SIZES[i] >= s and get_max_size(s) is that class
\* size, and the class of s is no larger than the class of s + 1; for a
\* larger s, get_slab is Unsupported and get_max_size is None.
C11_SizeClassMapping ==
  /\ run.phase \in {"slab", "mapped"}
     => /\ run.size <= MAX_ALLOC_SIZE => run.slab = LeastClass(run.size)
        /\ run.size < MAX_ALLOC_SIZE => run.slab <= get_slab(run.size + 1)
        /\ run.size > MAX_ALLOC_SIZE => run.slab = Unsupported
  /\ run.phase = "mapped"
     => /\ run.size <= MAX_ALLOC_SIZE
           => run.max_size
                = [some |-> TRUE, size |-> BASE_ALLOC_SIZES[run.slab + 1]]
        /\ run.size > MAX_ALLOC_SIZE => run.max_size = NotMapped

\* the size 4097 is mapped to the last class, of size MAX_ALLOC_SIZE
C11_Witness ==
  /\ run.phase = "mapped"
  /\ run.size = 4097
  /\ run.slab = 10
  /\ run.max_size = [some |-> TRUE, size |-> MAX_ALLOC_SIZE]

\* layouts whose size exceeds MAX_ALLOC_SIZE
OversizedLayouts ==
  { [size |-> MAX_ALLOC_SIZE + 1, align |-> 1],
    [size |-> PAGE_SIZE, align |-> 8] }

\* C12: allocate, deallocate and refill of a Zone, called with a layout whose
\* size exceeds MAX_ALLOC_SIZE, return InvalidLayout and leave every list and
\* every page bitfield as they were.
C12_OversizedRejected ==
  \A z \in Zones, layout \in OversizedLayouts :
    /\ \A kind \in ListKinds :
         /\ zone_allocate(zones[z], mem, layout, kind).err = ErrInvalidLayout
         /\ zone_allocate(zones[z], mem, layout, kind).ptr = 0
         /\ zone_allocate(zones[z], mem, layout, kind).zone = zones[z]
         /\ zone_allocate(zones[z], mem, layout, kind).mem = mem
    /\ \A a \in live :
         /\ zone_deallocate(zones[z], mem, a.ptr, layout).err = ErrInvalidLayout
         /\ zone_deallocate(zones[z], mem, a.ptr, layout).zone = zones[z]
         /\ zone_deallocate(zones[z], mem, a.ptr, layout).mem = mem
         /\ ~zone_deallocate(zones[z], mem, a.ptr, layout).panic
    /\ \A page \in PageAddrs \ Held :
         /\ zone_refill(zones[z], mem, layout, page, z).err = ErrInvalidLayout
         /\ zone_refill(zones[z], mem, layout, page, z).zone = zones[z]
         /\ zone_refill(zones[z], mem, layout, page, z).mem = mem

\* a Zone that holds a page with a live allocation, with a page free for a
\* refill, rejects the three calls
C12_Witness ==
  \E z \in Zones, a \in live, page \in PageAddrs \ Held :
    /\ PageOf(a.ptr) \in HeldBy(z)
    /\ \A layout \in OversizedLayouts :
         /\ zone_allocate(zones[z], mem, layout, "slabs").err = ErrInvalidLayout
         /\ zone_deallocate(zones[z], mem, a.ptr, layout).err = ErrInvalidLayout
         /\ zone_refill(zones[z], mem, layout, page, z).err = ErrInvalidLayout

\* layouts whose alignment exceeds PAGE_SIZE
OveralignedLayouts ==
  { [size |-> 8, align |-> 2 * PAGE_SIZE],
    [size |-> 2048, align |-> 2 * PAGE_SIZE] }

\* C13: Zone.allocate called with a layout whose alignment exceeds PAGE_SIZE
\* returns InvalidLayout in every state and moves no page between lists.
C13_OveralignedRejected ==
  \A z \in Zones, layout \in OveralignedLayouts, kind \in ListKinds :
    /\ zone_allocate(zones[z], mem, layout, kind).err = ErrInvalidLayout
    /\ zone_allocate(zones[z], mem, layout, kind).ptr = 0
    /\ zone_allocate(zones[z], mem, layout, kind).zone = zones[z]

\* the pointers a caller can hand to deallocate: those of the live
\* allocations and the first slot of every page some allocator holds
KnownPointers == {a.ptr : a \in live} \cup Held

\* C14: SCAllocator::deallocate of a pointer whose page is in neither the
\* partial nor the full list of this allocator returns an error, without a
\* panic, and changes no list and no page bitfield.
C14_ForeignPageRejected ==
  \A z \in Zones, layout \in ClassLayouts, ptr \in KnownPointers :
    /\ ~contains(zones[z][get_slab(layout.size)].slabs, PageOf(ptr))
    /\ ~contains(zones[z][get_slab(layout.size)].full_slabs, PageOf(ptr))
    => /\ ~sc_deallocate(zones[z][get_slab(layout.size)], mem, ptr, layout).ok
       /\ ~sc_deallocate(zones[z][get_slab(layout.size)], mem, ptr,
                         layout).panic
       /\ sc_deallocate(zones[z][get_slab(layout.size)], mem, ptr, layout).sca
            = zones[z][get_slab(layout.size)]
       /\ sc_deallocate(zones[z][get_slab(layout.size)], mem, ptr, layout).mem
            = mem

\* the slots a double free is tried on
ProbedSlots == 0..2

\* C15: SCAllocator::deallocate of a pointer to a slot of one of its pages
\* whose bit is already clear returns an error, without a panic, and leaves
\* the bitfield and all lists as they were, also when the page is in the
\* empty list.
C15_DoubleFreeIsError ==
  \A z \in Zones, layout \in ClassLayouts, i \in ProbedSlots :
    \A page \in SCPages(zones[z][get_slab(layout.size)]) :
      /\ i < zones[z][get_slab(layout.size)].obj_per_page
      /\ ~is_allocated(mem[page].bitfield, i)
      => /\ ~sc_deallocate(zones[z][get_slab(layout.size)], mem,
                           page + i * layout.size, layout).ok
         /\ ~sc_deallocate(zones[z][get_slab(layout.size)], mem,
                           page + i * layout.size, layout).panic
         /\ sc_deallocate(zones[z][get_slab(layout.size)], mem,
                          page + i * layout.size, layout).sca
              = zones[z][get_slab(layout.size)]
         /\ sc_deallocate(zones[z][get_slab(layout.size)], mem,
                          page + i * layout.size, layout).mem = mem

\* the pages of a list
ListSet(list) == {list[i] : i \in 1..Len(list)}

\* the heap ids a merge stamps
MergeHeapIds == {1, 2, 7}

\* C16: after A.merge(B, h), every list of A holds exactly the pages of A's
\* and of B's former list of the same class and kind, each once; every page
\* that came from B has heap id h; every list of B is empty; no page bitfield
\* has changed.
C16_Merge ==
  \A z \in Zones, o \in Zones, h \in MergeHeapIds :
    z # o =>
    /\ \A c \in ClassIdx, kind \in ListKinds :
         /\ ListSet(zone_merge(zones[z], zones[o], mem, h).zone[c][kind])
              = ListSet(zones[z][c][kind]) \cup ListSet(zones[o][c][kind])
         /\ Len(zone_merge(zones[z], zones[o], mem, h).zone[c][kind])
              = Len(zones[z][c][kind]) + Len(zones[o][c][kind])
         /\ zone_merge(zones[z], zones[o], mem, h).allocator[c][kind] = <<>>
    /\ \A p \in HeldBy(o) :
         zone_merge(zones[z], zones[o], mem, h).mem[p].heap_id = h
    /\ \A p \in PageAddrs :
         zone_merge(zones[z], zones[o], mem, h).mem[p].bitfield
           = mem[p].bitfield

\* both heaps hold a page in lists that the merge joins: a full page in one
\* heap and a page of the same class in the other
C16_Witness ==
  \E z \in Zones, o \in Zones, c \in ClassIdx :
    /\ z # o
    /\ Len(zones[o][c].full_slabs) = 1
    /\ SCPages(zones[z][c]) # {}
    /\ zone_merge(zones[z], zones[o], mem, 7).mem[Head(zones[o][c].full_slabs)]
         .heap_id = 7

\* the classes of a zone whose empty list lost its head, the page, in the
\* zone after
PoppedClasses(zone, after, page) ==
  {c \in ClassIdx :
     /\ Len(zone[c].empty_slabs) > 0
     /\ Head(zone[c].empty_slabs) = page
     /\ after[c].empty_slabs = Tail(zone[c].empty_slabs)}

ZonePages(zone) ==
  UNION {ListSet(zone[x[1]][x[2]]) : x \in ClassIdx \X ListKinds}

PageCount(zone) ==
  Cardinality({x \in ClassIdx \X ListKinds \X (1..(2 * NumPages)) :
                 x[3] <= Len(zone[x[1]][x[2]])})

\* C18: the pages in the lists of a Zone change by +1, the page given, on a
\* successful refill, by -1, the page returned, on a retrieve_empty_page that
\* returns a page, and not at all on allocate, exchange included, and on
\* deallocate.
C18_PageConservation ==
  \A z \in Zones :
    /\ \A layout \in Layouts \cup OveralignedLayouts, kind \in ListKinds :
         /\ ZonePages(zone_allocate(zones[z], mem, layout, kind).zone)
              = ZonePages(zones[z])
         /\ PageCount(zone_allocate(zones[z], mem, layout, kind).zone)
              = PageCount(zones[z])
    /\ \A a \in live, layout \in Layouts :
         ~zone_deallocate(zones[z], mem, a.ptr, layout).panic
         => /\ ZonePages(zone_deallocate(zones[z], mem, a.ptr, layout).zone)
                 = ZonePages(zones[z])
            /\ PageCount(zone_deallocate(zones[z], mem, a.ptr, layout).zone)
                 = PageCount(zones[z])
    /\ \A layout \in Layouts, page \in PageAddrs \ Held :
         /\ zone_refill(zones[z], mem, layout, page, z).err = NoErr
         /\ ZonePages(zone_refill(zones[z], mem, layout, page, z).zone)
              = ZonePages(zones[z]) \cup {page}
         /\ PageCount(zone_refill(zones[z], mem, layout, page, z).zone)
              = PageCount(zones[z]) + 1
    /\ zone_retrieve_empty_page(zones[z]).page = 0
       => zone_retrieve_empty_page(zones[z]).zone = zones[z]
    /\ zone_retrieve_empty_page(zones[z]).page # 0
       => /\ ZonePages(zone_retrieve_empty_page(zones[z]).zone)
               = ZonePages(zones[z]) \ {zone_retrieve_empty_page(zones[z]).page}
          /\ PageCount(zone_retrieve_empty_page(zones[z]).zone)
               = PageCount(zones[z]) - 1

\* a Zone whose allocate exchanges a page: the class of the layout can serve
\* nothing, another class gives its empty page, and the Zone holds a second
\* page with a live allocation
C18_Witness ==
  \E z \in Zones, layout \in Layouts, a \in live :
    /\ PageOf(a.ptr) \in HeldBy(z)
    /\ sc_allocate(zones[z][get_slab(layout.size)], mem, layout).ptr = 0
    /\ zone_allocate(zones[z], mem, layout, "slabs").ptr # 0

\* C19: a page refilled into class A, never allocated from or allocated from
\* and freed, then retrieved and refilled into class B, is the empty page of
\* B with exactly the bits of B's slots clear, and serves exactly
\* min((PAGE_SIZE - METADATA_SIZE) / size_B, 512) allocations of class B.
C19_Reclassified ==
  /\ run.phase = "fill" /\ run.refills = 2 /\ run.count = 0
     => /\ zones[1][get_slab(run.layout.size)].empty_slabs
             = <<SetMin(PageAddrs)>>
        /\ clear_bits(mem[SetMin(PageAddrs)].bitfield)
             = 0..(cmin((PAGE_SIZE - METADATA_SIZE) \div run.layout.size, 512)
                   - 1)
  /\ run.phase = "fill" /\ run.refills = 2
     => run.count <= cmin((PAGE_SIZE - METADATA_SIZE) \div run.layout.size, 512)
  /\ run.phase = "out" /\ run.refills = 2
     => run.count = cmin((PAGE_SIZE - METADATA_SIZE) \div run.layout.size, 512)

\* a page that served an allocation of class 8 and was freed has served its
\* 3 allocations of class 2048, and the 4th has failed
C19_Witness ==
  /\ run.phase = "out"
  /\ run.refills = 2
  /\ run.from.size = 8
  /\ run.n = 1
  /\ run.layout.size = 2048
  /\ run.count = 3

\* the lists of allocator sca that page p is in
ListsOf(sca, p) == {k \in ListKinds : contains(sca[k], p)}

\* the slots of a page of obj_per_page slots whose bit is set in bitfield
SlotsSet(bitfield, obj_per_page) ==
  {i \in 0..(obj_per_page - 1) : is_allocated(bitfield, i)}

\* r is what a deallocate on allocator sca returned for a pointer into page:
\* if it succeeded, the page is where its bits before and after say, and
\* every other page is where it was
DeallocateTransition(sca, page, r) ==
  r.ok /\ ~r.panic
  => /\ ListsOf(r.sca, page)
          = IF SlotsSet(r.mem[page].bitfield, sca.obj_per_page) = {}
            THEN {"empty_slabs"}
            ELSE IF SlotsSet(mem[page].bitfield, BITFIELD_BITS)
                      = 0..(BITFIELD_BITS - 1)
            THEN {"slabs"}
            ELSE ListsOf(sca, page)
     /\ \A q \in PageAddrs \ {page} : ListsOf(r.sca, q) = ListsOf(sca, q)

\* C20: after a successful SCAllocator::deallocate the page of the pointer is
\* in the empty list if no slot of it is set any more, else in the partial
\* list if every bit of it was set before the call, else in the lists it was
\* in; every other page is in the lists it was in.
C20_DeallocateTransitions ==
  \A z \in Zones, layout \in ClassLayouts, ptr \in KnownPointers :
    DeallocateTransition(zones[z][get_slab(layout.size)], PageOf(ptr),
      sc_deallocate(zones[z][get_slab(layout.size)], mem, ptr, layout))

\* a live allocation lies in a page of several slots that is in the full
\* list, and its deallocate succeeds and leaves the page in the partial list
C20_Witness ==
  \E z \in Zones, a \in live :
    /\ zones[z][a.idx].obj_per_page > 1
    /\ contains(zones[z][a.idx].full_slabs, PageOf(a.ptr))
    /\ sc_deallocate(zones[z][a.idx], mem, a.ptr,
                     [size |-> ClassSize(a.idx), align |-> 1]).ok
    /\ ListsOf(sc_deallocate(zones[z][a.idx], mem, a.ptr,
                             [size |-> ClassSize(a.idx), align |-> 1]).sca,
               PageOf(a.ptr)) = {"slabs"}

\* the layouts handed to allocate, the over-aligned ones included
AllLayouts == Layouts \cup OveralignedLayouts

\* C21: whenever SCAllocator::allocate pops a page from the empty list, the
\* allocation from that page succeeds ("Allocation must have succeeded here"
\* holds), and the page put in the partial list holds an object.
C21_PoppedPageServes ==
  \A z \in Zones, layout \in AllLayouts :
    Len(sc_allocate(zones[z][get_slab(layout.size)], mem, layout)
          .sca.empty_slabs)
      < Len(zones[z][get_slab(layout.size)].empty_slabs)
    => /\ sc_allocate(zones[z][get_slab(layout.size)], mem, layout).ptr # 0
       /\ sc_allocate(zones[z][get_slab(layout.size)], mem, layout).asserted
       /\ SlotsSet(
            sc_allocate(zones[z][get_slab(layout.size)], mem, layout)
              .mem[Head(zones[z][get_slab(layout.size)].empty_slabs)].bitfield,
            zones[z][get_slab(layout.size)].obj_per_page) # {}

\* page p of allocator sca has a clear slot whose address is a multiple of
\* align
HasFreeSlot(sca, p, align) ==
  \E i \in 0..(sca.obj_per_page - 1) :
    /\ ~is_allocated(mem[p].bitfield, i)
    /\ (p + i * sca.size) % align = 0

\* r is what allocate on sca returned for a layout of alignment align: if a
\* page of the partial list had a free slot for it, the pointer lies in a
\* page that was in the partial list and the empty list is as it was
ServedFromPartial(sca, align, r) ==
  (\E p \in ListSet(sca.slabs) : HasFreeSlot(sca, p, align))
  => /\ r.ptr # 0
     /\ PageOf(r.ptr) \in ListSet(sca.slabs)
     /\ r.sca.empty_slabs = sca.empty_slabs

\* C22: if some page of the partial list has a free slot that satisfies the
\* alignment, SCAllocator::allocate serves from a page of the partial list
\* and leaves the empty list unchanged.
C22_PartialBeforeEmpty ==
  \A z \in Zones, layout \in AllLayouts :
    ServedFromPartial(zones[z][get_slab(layout.size)], layout.align,
      sc_allocate(zones[z][get_slab(layout.size)], mem, layout))

\* an allocator holds an empty page and a partial page with a free slot, and
\* its allocate returns a pointer into the partial page
C22_Witness ==
  \E z \in Zones, layout \in Layouts :
    /\ Len(zones[z][get_slab(layout.size)].empty_slabs) > 0
    /\ \E p \in ListSet(zones[z][get_slab(layout.size)].slabs) :
         HasFreeSlot(zones[z][get_slab(layout.size)], p, layout.align)
    /\ PageOf(sc_allocate(zones[z][get_slab(layout.size)], mem, layout).ptr)
         \in ListSet(zones[z][get_slab(layout.size)].slabs)

\* slot i of page p of allocator sca is free and its address is a multiple
\* of align
FitsSlot(sca, p, i, align) ==
  /\ i < sca.obj_per_page
  /\ ~is_allocated(mem[p].bitfield, i)
  /\ (p + i * sca.size) % align = 0

\* ptr, returned by allocate on sca, is the lowest slot of its page that was
\* free and satisfies the alignment
LowestFit(sca, align, ptr) ==
  ptr # 0
  => /\ ptr = PageOf(ptr) + ((ptr - PageOf(ptr)) \div sca.size) * sca.size
     /\ FitsSlot(sca, PageOf(ptr), (ptr - PageOf(ptr)) \div sca.size, align)
     /\ \A j \in 0..((ptr - PageOf(ptr)) \div sca.size - 1) :
          ~FitsSlot(sca, PageOf(ptr), j, align)

\* d is what deallocate on sca returned for ptr, whose lower slots are all
\* allocated: the page then allocates ptr again for every alignment up to the
\* class size
FreedSlotReturned(sca, ptr, d) ==
  /\ d.ok
  /\ ~d.panic
  /\ \A j \in 0..((ptr - PageOf(ptr)) \div sca.size - 1) :
       is_allocated(mem[PageOf(ptr)].bitfield, j)
  => \A align \in {1, 8, sca.size} :
       align <= sca.size
       => page_allocate(d.mem[PageOf(ptr)].bitfield, PageOf(ptr), sca.size,
                        align).ptr = ptr

\* the layouts first fit is probed with: sizes below the class size included
FitLayouts ==
  AllLayouts \cup { [size |-> 5, align |-> 1], [size |-> 12, align |-> 4],
                    [size |-> 2000, align |-> 1] }

\* C23: a pointer SCAllocator::allocate returns is the slot of lowest index
\* among the clear in-range slots of its page whose address is a multiple of
\* layout.align; and once slot i is freed while all lower slots stay
\* allocated, the next allocation from that page with align <= size returns
\* slot i again.
C23_FirstFit ==
  /\ \A z \in Zones, layout \in FitLayouts :
       LowestFit(zones[z][get_slab(layout.size)], layout.align,
         sc_allocate(zones[z][get_slab(layout.size)], mem, layout).ptr)
  /\ \A z \in Zones, a \in live :
       PageOf(a.ptr) \in SCPages(zones[z][a.idx])
       => FreedSlotReturned(zones[z][a.idx], a.ptr,
            sc_deallocate(zones[z][a.idx], mem, a.ptr,
                          [size |-> ClassSize(a.idx), align |-> 1]))

\* slots 0, 1 and 2 of a page are allocated, and after slot 1 is freed the
\* page allocates slot 1 again
C23_Witness ==
  \E z \in Zones, a \in live :
    /\ PageOf(a.ptr) \in SCPages(zones[z][a.idx])
    /\ a.ptr = PageOf(a.ptr) + ClassSize(a.idx)
    /\ is_allocated(mem[PageOf(a.ptr)].bitfield, 0)
    /\ is_allocated(mem[PageOf(a.ptr)].bitfield, 2)
    /\ zones[z][a.idx].obj_per_page > 2
    /\ sc_deallocate(zones[z][a.idx], mem, a.ptr,
                     [size |-> ClassSize(a.idx), align |-> 1]).ok
    /\ page_allocate(
         sc_deallocate(zones[z][a.idx], mem, a.ptr,
                       [size |-> ClassSize(a.idx), align |-> 1])
           .mem[PageOf(a.ptr)].bitfield,
         PageOf(a.ptr), ClassSize(a.idx), 1).ptr = a.ptr

\* C24: allocation_count counts the allocate calls that returned a pointer:
\* every SCAllocator::allocate that returns a pointer, from a partial page or
\* from a page taken from the empty list, raises it by one, and one that
\* returns an error leaves it as it was.
C24_CountsEveryAllocation ==
  \A z \in Zones, layout \in Layouts :
    sc_allocate(zones[z][get_slab(layout.size)], mem, layout)
      .sca.allocation_count
      = zones[z][get_slab(layout.size)].allocation_count
        + IF sc_allocate(zones[z][get_slab(layout.size)], mem, layout).ptr # 0
          THEN 1 ELSE 0

\* C25: every SCAllocator of a Zone, the one of size MAX_ALLOC_SIZE included,
\* has size <= PAGE_SIZE - CACHE_LINE_SIZE, which is what allocate and
\* deallocate assert; the sizes are those of BASE_ALLOC_SIZES.
C25_SizeLimit ==
  \A z \in Zones, c \in ClassIdx :
    /\ zones[z][c].size = BASE_ALLOC_SIZES[c + 1]
    /\ zones[z][c].size <= PAGE_SIZE - CACHE_LINE_SIZE

\* the class of size MAX_ALLOC_SIZE has served its one allocation
C25_Witness ==
  /\ run.phase = "out"
  /\ run.layout.size = MAX_ALLOC_SIZE
  /\ run.count = 1
  /\ zones[1][MAX_BASE_SIZE_CLASSES - 1].size = MAX_ALLOC_SIZE

\* C25 as stated: every SCAllocator of a Zone has
\* size <= (PAGE_SIZE - METADATA_SIZE) - CACHE_LINE_SIZE.
C25_AsStated ==
  \A z \in Zones, c \in ClassIdx :
    zones[z][c].size <= (PAGE_SIZE - METADATA_SIZE) - CACHE_LINE_SIZE

\* C26: no slot spills into the metadata of its page: for every size class
\* and every slot index i below obj_per_page, (i + 1) * size is at most
\* PAGE_SIZE - METADATA_SIZE; and every pointer allocate has returned lies in
\* its page with pointer + class size at most the end of the data area.
C26_NoSpill ==
  /\ \A z \in Zones, c \in ClassIdx :
       \A i \in 0..(zones[z][c].obj_per_page - 1) :
         (i + 1) * zones[z][c].size <= PAGE_SIZE - METADATA_SIZE
  /\ \A a \in live :
       /\ a.ptr >= PageOf(a.ptr)
       /\ a.ptr + ClassSize(a.idx)
            <= PageOf(a.ptr) + (PAGE_SIZE - METADATA_SIZE)

\* the page of class 16 is filled up to its last slot, number 505, which
\* ends 8 bytes before the metadata
C26_Witness ==
  /\ run.phase = "out"
  /\ run.layout.size = 16
  /\ \E a \in live :
       /\ a.idx = 1
       /\ a.ptr + 16 = PageOf(a.ptr) + (PAGE_SIZE - METADATA_SIZE) - 8

\* every bit at or above obj_per_page is set in every page of allocator sca,
\* the pages' bitfields being those of memory m
SentinelsSet(sca, m) ==
  \A p \in SCPages(sca) :
    \A i \in sca.obj_per_page..(BITFIELD_BITS - 1) :
      is_allocated(m[p].bitfield, i)

\* C27: in every page held in a list of an SCAllocator all bits at or above
\* the obj_per_page of its class are set; allocate returns no slot at or
\* above obj_per_page and leaves those bits set, and so does deallocate.
C27_SentinelsKept ==
  /\ \A z \in Zones, c \in ClassIdx : SentinelsSet(zones[z][c], mem)
  /\ \A z \in Zones, layout \in AllLayouts :
       /\ SentinelsSet(
            sc_allocate(zones[z][get_slab(layout.size)], mem, layout).sca,
            sc_allocate(zones[z][get_slab(layout.size)], mem, layout).mem)
       /\ sc_allocate(zones[z][get_slab(layout.size)], mem, layout).ptr # 0
          => (sc_allocate(zones[z][get_slab(layout.size)], mem, layout).ptr
                % PAGE_SIZE) \div zones[z][get_slab(layout.size)].size
               < zones[z][get_slab(layout.size)].obj_per_page
  /\ \A z \in Zones, a \in live :
       PageOf(a.ptr) \in SCPages(zones[z][a.idx])
       => SentinelsSet(
            sc_deallocate(zones[z][a.idx], mem, a.ptr,
                          [size |-> ClassSize(a.idx), align |-> 1]).sca,
            sc_deallocate(zones[z][a.idx], mem, a.ptr,
                          [size |-> ClassSize(a.idx), align |-> 1]).mem)

\* a page of class 2048 has had its three slots allocated and the middle one
\* freed: slots 0 and 2 are set, and so is every bit from 3 to 511
C27_Witness ==
  \E z \in Zones :
    /\ Len(zones[z][get_slab(2048)].slabs) = 1
    /\ SetSlots(Head(zones[z][get_slab(2048)].slabs), 3) = {0, 2}
    /\ \A i \in 3..(BITFIELD_BITS - 1) :
         is_allocated(mem[Head(zones[z][get_slab(2048)].slabs)].bitfield, i)

\* C28: a ZoneAllocator::allocate or SCAllocator::allocate that returns an
\* error leaves every list of every size class and every page's metadata as
\* they were.
C28_ErrorLeavesState ==
  /\ \A z \in Zones, layout \in AllLayouts, kind \in ListKinds :
       zone_allocate(zones[z], mem, layout, kind).ptr = 0
       => /\ zone_allocate(zones[z], mem, layout, kind).zone = zones[z]
          /\ zone_allocate(zones[z], mem, layout, kind).mem = mem
  /\ \A z \in Zones, layout \in AllLayouts :
       sc_allocate(zones[z][get_slab(layout.size)], mem, layout).ptr = 0
       => /\ sc_allocate(zones[z][get_slab(layout.size)], mem, layout).sca
               = zones[z][get_slab(layout.size)]
          /\ sc_allocate(zones[z][get_slab(layout.size)], mem, layout).mem
               = mem

\* zone and m are what a call on heap z made of its Zone and of memory: the
\* allocators of all classes but idx, and the metadata of all pages but those
\* of class idx, are as they were, and class idx holds the pages it held
FrameOfClass(z, idx, zone, m) ==
  /\ \A c \in ClassIdx \ {idx} : zone[c] = zones[z][c]
  /\ \A p \in PageAddrs \ SCPages(zones[z][idx]) : m[p] = mem[p]
  /\ SCPages(zone[idx]) = SCPages(zones[z][idx])

\* C29: a ZoneAllocator::allocate served by its first attempt, and every
\* ZoneAllocator::deallocate, change only the lists and the pages of the size
\* class the layout's size selects: the other classes' lists, bitfields and
\* heap ids stay, and no page changes size class.
C29_Frame ==
  /\ \A z \in Zones, layout \in AllLayouts, kind \in ListKinds :
       sc_allocate(zones[z][get_slab(layout.size)], mem, layout).ptr # 0
       => FrameOfClass(z, get_slab(layout.size),
            zone_allocate(zones[z], mem, layout, kind).zone,
            zone_allocate(zones[z], mem, layout, kind).mem)
  /\ \A z \in Zones, a \in live, layout \in Layouts :
       /\ get_slab(layout.size) = a.idx
       /\ PageOf(a.ptr) \in SCPages(zones[z][a.idx])
       => FrameOfClass(z, a.idx,
            zone_deallocate(zones[z], mem, a.ptr, layout).zone,
            zone_deallocate(zones[z], mem, a.ptr, layout).mem)

\* a Zone holds an empty page in one class and serves an allocation at the
\* first attempt from a page of another class, which holds a live allocation
C29_Witness ==
  \E z \in Zones, layout \in Layouts, c \in ClassIdx, a \in live :
    /\ c # get_slab(layout.size)
    /\ Len(zones[z][c].empty_slabs) > 0
    /\ a.idx = get_slab(layout.size)
    /\ PageOf(a.ptr) \in SCPages(zones[z][a.idx])
    /\ sc_allocate(zones[z][get_slab(layout.size)], mem, layout).ptr # 0
    /\ zone_allocate(zones[z], mem, layout, "slabs").zone[c] = zones[z][c]

\* d is what deallocate returned, called on what allocate had made of sca and
\* of memory: it succeeded, every page's bitfield is as before the allocate,
\* every list holds the pages it held, and the allocate succeeds again
RoundTripRestores(sca, layout, d) ==
  /\ d.ok
  /\ ~d.panic
  /\ \A p \in PageAddrs : d.mem[p].bitfield = mem[p].bitfield
  /\ \A k \in ListKinds : ListSet(d.sca[k]) = ListSet(sca[k])
  /\ sc_allocate(d.sca, d.mem, layout).ptr # 0

\* a is what allocate on sca returned for layout; the pointer is freed with
\* every layout of the class
RoundTrip(sca, layout, a) ==
  a.ptr # 0
  => \A freed \in FitLayouts :
       get_slab(freed.size) = get_slab(layout.size)
       => RoundTripRestores(sca, layout,
            sc_deallocate(a.sca, a.mem, a.ptr, freed))

\* C30: from every reachable state of an SCAllocator, a successful allocate
\* followed at once by deallocate of the pointer, with any layout of the
\* class, succeeds and restores every page's bitfield and the sets of pages
\* of the empty, partial and full lists, so the allocate succeeds again.
C30_RoundTrip ==
  \A z \in Zones, layout \in AllLayouts :
    RoundTrip(zones[z][get_slab(layout.size)], layout,
      sc_allocate(zones[z][get_slab(layout.size)], mem, layout))

\* the only page of an allocator of class 2048 has two of its three slots
\* allocated: the allocate fills it and moves it to the full list, and the
\* deallocate brings it back
C30_Witness ==
  \E z \in Zones :
    /\ zones[z][get_slab(2048)].slabs # <<>>
    /\ SCPages(zones[z][get_slab(2048)])
         = {Head(zones[z][get_slab(2048)].slabs)}
    /\ SetSlots(Head(zones[z][get_slab(2048)].slabs), 3) = {0, 1}
    /\ sc_allocate(zones[z][get_slab(2048)], mem,
                   [size |-> 2048, align |-> 1]).sca.full_slabs
         = zones[z][get_slab(2048)].slabs

\* d is what deallocate on allocator sca returned for a pointer into page:
\* no unwrap() failed and the debug assertions held; a page that has become
\* empty was in the partial list and is in the empty list alone; a full page
\* that stays non-empty was in the full list and is in the partial list alone
MovesAsserted(sca, page, d) ==
  /\ d.ok
  /\ ~d.panic
  /\ d.asserted
  /\ SlotsSet(d.mem[page].bitfield, sca.obj_per_page) = {}
     => /\ contains(sca.slabs, page)
        /\ ~contains(sca.empty_slabs, page)
        /\ ListsOf(d.sca, page) = {"empty_slabs"}
  /\ /\ SlotsSet(d.mem[page].bitfield, sca.obj_per_page) # {}
     /\ SlotsSet(mem[page].bitfield, BITFIELD_BITS) = 0..(BITFIELD_BITS - 1)
     => /\ contains(sca.full_slabs, page)
        /\ ~contains(sca.slabs, page)
        /\ ListsOf(d.sca, page) = {"slabs"}

\* C31: the page obtained by masking the pointer of a live allocation is in
\* the partial or the full list of the size class that served it, in one
\* heap; so every deallocate of a live pointer with a layout of its class,
\* on the allocator that holds the page, passes the debug assertions of
\* move_to_empty and move_full_to_partial, and no call has panicked.
C31_LivePagesListed ==
  /\ ~panicked
  /\ \A a \in live :
       \E z \in Zones :
         ListsOf(zones[z][a.idx], PageOf(a.ptr)) \in {{"slabs"}, {"full_slabs"}}
  /\ \A z \in Zones, a \in live, layout \in FitLayouts :
       /\ get_slab(layout.size) = a.idx
       /\ PageOf(a.ptr) \in SCPages(zones[z][a.idx])
       => MovesAsserted(zones[z][a.idx], PageOf(a.ptr),
            sc_deallocate(zones[z][a.idx], mem, a.ptr, layout))

\* the one slot of a page of class 4096 is live: the page is full and in the
\* partial list, and the deallocate that empties it finds it there
C31_Witness ==
  \E z \in Zones, a \in live :
    /\ a.idx = get_slab(4096)
    /\ ListsOf(zones[z][a.idx], PageOf(a.ptr)) = {"slabs"}
    /\ is_full(mem[PageOf(a.ptr)].bitfield)
    /\ sc_deallocate(zones[z][a.idx], mem, a.ptr,
                     [size |-> 4096, align |-> 1]).asserted
    /\ contains(sc_deallocate(zones[z][a.idx], mem, a.ptr,
                              [size |-> 4096, align |-> 1]).sca.empty_slabs,
                PageOf(a.ptr))

====
